---- MODULE Spec2Model ----
(***************************************************************************)
(* Pocket: a PIN-protected local vault (AuthContext, VaultContext,         *)
(* BiometricService, StorageService) and its Firestore synchronisation     *)
(* (FirebaseSyncService).  Every device runs its own copy of the program   *)
(* against its own IndexedDB and localStorage; the devices of one user     *)
(* share one remote record collection.                                     *)
(*                                                                         *)
(* Time is Date.now() in milliseconds.  Timestamps that the code stores as *)
(* ISO-8601 strings (toISOString, millisecond precision) and reads back    *)
(* with new Date(s).getTime() are kept as the millisecond value.           *)
(***************************************************************************)
EXTENDS Integers, FiniteSets, Sequences, TLC

\* ------------------------------------------------------------------------
\* Bounds of the model
\* ------------------------------------------------------------------------
Devices ==
  {"A", "B"}

\* the device whose vault the single-device specifications exercise
VaultDevices ==
  {"A"}

Pins ==
  {"1234", "0000"}

\* record ids the key generator of a store may hand out
MaxId == 2

Ids ==
  1..MaxId

\* user operations on records and sessions in one run
MaxOps == 4

\* the isPrivate values of the records added in the two-device specification
\* (a public record can be edited on both devices)
SyncKinds ==
  {FALSE}

\* master keys a device may generate (setupPin calls)
MaxKeys == 2

\* WebAuthn credentials a device may create (biometric enrolments)
MaxCreds == 1

\* wrong-PIN attempts in one streak
MaxStreak == 6

\* millisecond steps of the clock within one second
MaxTicks == 2

\* 24-hour steps of the clock
MaxDays == 1

\* deferred calls of syncToCloud pending on a device
MaxTimers ==
  2

\* calls that the users make before they stop, in SpecQuiet
MaxQuietOps ==
  2

\* auto-lock timeouts that may pass
MaxIdle ==
  2

\* a lockout-length wait starts only before this many seconds have passed
MaxWaitFrom == 30

\* ------------------------------------------------------------------------
\* Program constants
\* ------------------------------------------------------------------------
\* seconds without user input after which the vault locks
AUTO_LOCK_TIMEOUT ==
  120

LOCKOUT_SCHEDULE ==
  <<0, 30, 600, 3600, 21600>>

\* tombstones older than this are skipped by downloadAllRecords
TOMBSTONE_TTL == 86400000

\* null / undefined
NoKey ==
  <<"none", 0>>

NoTime == 0
NoCred == 0
NoPin ==
  "none"

NoMeta ==
  [k |-> "none", wrappedKey |-> NoKey, wrapPin |-> NoPin,
   failedAttempts |-> NoKey, lockUntil |-> NoTime, lastFailedTimestamp |-> NoTime]

NoDevice ==
  "none"

NoData ==
  "none"

\* a document of the remote collection that carries only the tombstone fields
NoRecord ==
  [updatedAt |-> NoTime, isPrivate |-> FALSE, ciphertext |-> NoData,
   cipherKey |-> NoKey, plaintext |-> NoData, cloudUpdatedAt |-> NoTime,
   deviceId |-> NoDevice, deleted |-> FALSE]

EmptyStore ==
  [i \in {} |-> NoRecord]

NoSyncMeta ==
  [lastSyncTime |-> NoTime, deviceId |-> NoDevice]

NoResult ==
  [uploaded |-> 0, downloaded |-> 0, deleted |-> 0, errors |-> 0]

NoChanges ==
  [unseen |-> {}, timers |-> 0]

NoMutation ==
  [id |-> 0, record |-> NoRecord]

NoCalls ==
  [bodies |-> 0, rejected |-> "none"]

NoCall ==
  [pin |-> NoPin, meta |-> NoMeta]

NoTimer ==
  [due |-> NoTime, isAuthenticated |-> FALSE]

NoBiometric ==
  [credentialId |-> NoCred, encryptedKey |-> NoKey, encryptedUnder |-> NoCred]

\* ------------------------------------------------------------------------
\* State
\* ------------------------------------------------------------------------
VARIABLES
  now,              \* Date.now()
  meta,             \* meta[d]: the VaultMeta row of device d's IndexedDB
  isAuthenticated,  \* AuthProvider state, per device
  masterKey,        \* AuthProvider state: the in-memory master key (NoKey = null)
  lockUntil,        \* AuthProvider state
  failedAttempts,   \* AuthProvider state
  keyCount,         \* master keys generated so far on the device
  biometric,        \* the two biometric localStorage entries of the device
  credCount,        \* WebAuthn credentials created so far on the device
  lastAuth,         \* history: PIN and outcome of the device's latest
                    \*   authenticate call, the wrong PINs in a row so far,
                    \*   and for a success the wrong PINs in a row before it
  autoLockTimer,    \* autoLockTimer.current of the device: the pending timeout
                    \*   (NoTimer = none) with the time it is due and the
                    \*   isAuthenticated that its callback has captured
  pendingAuth,      \* the authenticate call of the device that has read the
                    \*   VaultMeta (line 96) and not yet finished: its PIN and
                    \*   the VaultMeta it has read (NoCall = none)
  idleSince,        \* history: the time of the latest unlock or user-input
                    \*   event of the device's unlocked vault (NoTime = locked)
  local,            \* local[d]: the records store of device d's IndexedDB, by id
  nextId,           \* the key generator of that store (autoIncrement)
  createdBy,        \* history: createdBy[id] = the devices whose addRecord got id
  cloud,            \* the user's remote record collection, by document id
  syncMeta,         \* the remote meta/sync document
  signedIn,         \* firebaseAuthService.isSignedIn() on the device
  syncInProgress,   \* FirebaseSyncService.syncInProgress on the device
  phase,            \* where the device's running syncToCloud stands
  pos,              \* the next id of the loop the running sync is in
  localRecords,     \* the running sync's localRecords, by id
  cloudRecords,     \* the running sync's cloudRecords, by id
  result,           \* the SyncResult of the device's running or latest sync
  ops,              \* history: user operations on records and sessions so far
  clean,            \* history: clean[d] = "dirty" when a user on d or another
                    \*   device has written a record, or a sync of d has met an
                    \*   error, since d's latest sync read the stores;
                    \*   "synced" when one sync of d has read them since;
                    \*   "repeat" when a further sync of d has read them too
  edits,            \* history: edits[id][d] = time of d's latest updateRecord(id)
  pendingRemoval,   \* history: pendingRemoval[d][id] = "pending" from the
                    \*   moment another device deletes record id, which d holds;
                    \*   "due" once a sync of d has read the stores after that
  soleAdd,          \* history: soleAdd[d] = the ids of the records added on d
                    \*   under an id that no live record of another device has
                    \*   had since, and that no user has deleted
  listener,         \* the onSnapshot listener of the device: unseen = the ids
                    \*   of the documents written to the collection since its
                    \*   latest snapshot; timers = the pending
                    \*   setTimeout(() => this.syncToCloud(), 1000) callbacks
  mutation,         \* history: mutation[d] = the id and the stored record of
                    \*   the addRecord or updateRecord whose background call of
                    \*   syncToCloud started the running sync of d, until the
                    \*   user writes or deletes that record again
  syncCalls         \* history: syncCalls[d].bodies = the calls of syncToCloud on
                    \*   d that have passed its guards and not reached its
                    \*   finally block; syncCalls[d].rejected = the error with
                    \*   which the latest call returned at once, "none" if it
                    \*   passed the guards

authVars ==
  <<meta, isAuthenticated, masterKey, lockUntil, failedAttempts, keyCount,
    biometric, credCount, lastAuth, autoLockTimer, idleSince, pendingAuth>>

recVars ==
  <<local, nextId, createdBy, cloud, syncMeta, signedIn, syncInProgress, phase,
    pos, localRecords, cloudRecords, result, ops, clean, edits, pendingRemoval,
    soleAdd, syncCalls, mutation, listener>>

vars ==
  <<now, authVars, recVars>>

NoAuth ==
  [outcome |-> "none", streak |-> 0, pin |-> NoPin, failures |-> 0]

\* a fresh installation on every device: no vault, empty store, signed out
InitRecords ==
  /\ local = [d \in Devices |-> EmptyStore]
  /\ nextId = [d \in Devices |-> 1]
  /\ createdBy = [i \in Ids |-> {}]
  /\ cloud = EmptyStore
  /\ syncMeta = NoSyncMeta
  /\ signedIn = [d \in Devices |-> FALSE]
  /\ syncInProgress = [d \in Devices |-> FALSE]
  /\ phase = [d \in Devices |-> "idle"]
  /\ pos = [d \in Devices |-> 1]
  /\ localRecords = [d \in Devices |-> EmptyStore]
  /\ cloudRecords = [d \in Devices |-> EmptyStore]
  /\ result = [d \in Devices |-> NoResult]
  /\ ops = 0
  /\ clean = [d \in Devices |-> "dirty"]
  /\ edits = [i \in Ids |-> [d \in Devices |-> NoTime]]
  /\ pendingRemoval = [d \in Devices |-> [i \in Ids |-> "no"]]
  /\ soleAdd = [d \in Devices |-> {}]
  /\ syncCalls = [d \in Devices |-> NoCalls]
  /\ mutation = [d \in Devices |-> NoMutation]
  /\ listener = [d \in Devices |-> NoChanges]

InitAuth ==
  /\ InitRecords
  /\ now = 1
  /\ meta = [d \in Devices |-> NoMeta]
  /\ isAuthenticated = [d \in Devices |-> FALSE]
  /\ masterKey = [d \in Devices |-> NoKey]
  /\ lockUntil = [d \in Devices |-> NoTime]
  /\ failedAttempts = [d \in Devices |-> 0]
  /\ keyCount = [d \in Devices |-> 0]
  /\ biometric = [d \in Devices |-> NoBiometric]
  /\ credCount = [d \in Devices |-> 0]
  /\ lastAuth = [d \in Devices |-> NoAuth]
  /\ autoLockTimer = [d \in Devices |-> NoTimer]
  /\ idleSince = [d \in Devices |-> NoTime]
  /\ pendingAuth = [d \in Devices |-> NoCall]

\* ------------------------------------------------------------------------
\* The clock
\* ------------------------------------------------------------------------
\* a millisecond passes
Tick ==
  /\ now % 1000 <= MaxTicks
  /\ now' = now + 1
  /\ UNCHANGED <<authVars, recVars>>

\* time passes without user input up to the moment the earliest pending
\* auto-lock timer is due, or for the auto-lock timeout when none is pending
AutoLockWait ==
  LET due == {autoLockTimer[d].due : d \in {e \in Devices : autoLockTimer[e] # NoTimer}} IN
  /\ now \div (AUTO_LOCK_TIMEOUT * 1000) < MaxIdle
  /\ now' = IF due = {} THEN now + AUTO_LOCK_TIMEOUT * 1000 ELSE CHOOSE t \in due : \A u \in due : t <= u
  /\ now' > now
  /\ UNCHANGED <<authVars, recVars>>

\* the user waits for one of the lockout lengths of the schedule
LockoutWait ==
  /\ \E i \in 2..Len(LOCKOUT_SCHEDULE) :
       /\ now \div 1000 < MaxWaitFrom
       /\ now' = now + LOCKOUT_SCHEDULE[i] * 1000
  /\ UNCHANGED <<authVars, recVars>>

\* ------------------------------------------------------------------------
\* AuthProvider
\* ------------------------------------------------------------------------
\* lines 202-212, resetAutoLockTimer of a render whose isAuthenticated is
\* captured: the pending timeout is cleared and a new one is set
ResetAutoLockTimer(t, captured) ==
  [due |-> t + AUTO_LOCK_TIMEOUT * 1000, isAuthenticated |-> captured]

\* the resetAutoLockTimer that setupPin and authenticate call: useCallback
\* is given the dependency list [], so it is the one of the first render,
\* whose isAuthenticated is the useState(false) value
CapturedIsAuthenticated(d) ==
  FALSE

\* lines 81-85 and 130-134: the timer after setIsAuthenticated(true) and
\* resetAutoLockTimer(). When isAuthenticated changes, the cleanup of the
\* activity effect (lines 228-235) clears autoLockTimer.current; it runs
\* after the timeout is set when React batches the state updates, and
\* before it when React renders at each of them
ResetAutoLockTimerOnUnlock(d) ==
  /\ autoLockTimer' \in
       {[autoLockTimer EXCEPT ![d] = timer] :
          timer \in {ResetAutoLockTimer(now, CapturedIsAuthenticated(d))}
                       \cup (IF isAuthenticated[d] THEN {} ELSE {NoTimer})}
  /\ idleSince' = [idleSince EXCEPT ![d] = now]

\* the failedAttempts that the authenticate callback reads: useCallback is
\* given the dependency list [], so the callback of the first render is kept
\* and its failedAttempts is the useState(0) value of that render
CapturedFailedAttempts(d) ==
  0

\* lines 159-167: the lockout end for the newAttempts-th failure, NoTime if none
NewLockUntil(newAttempts, t) ==
  IF newAttempts >= Len(LOCKOUT_SCHEDULE)
    THEN t + LOCKOUT_SCHEDULE[Len(LOCKOUT_SCHEDULE)] * 1000
    ELSE IF newAttempts > 1
      THEN t + LOCKOUT_SCHEDULE[newAttempts] * 1000
      ELSE NoTime

\* an unwrapping that never yields the wrapped key
UnwrapMasterKeyFails(m, pin) ==
  NoKey

\* cryptoService.unwrapMasterKey under derivePinKey(pin, meta.kdfSalt):
\* AES-GCM unwrapping succeeds exactly under the key that wrapped
UnwrapMasterKey(m, pin) ==
  IF pin = m.wrapPin THEN m.wrappedKey ELSE NoKey

SetupPin(d, pin) ==
  /\ keyCount[d] < MaxKeys
  /\ LET newMasterKey == <<d, keyCount[d] + 1>> IN
       /\ keyCount' = [keyCount EXCEPT ![d] = @ + 1]
       /\ meta' = [meta EXCEPT ![d] =
            [k |-> "config", wrappedKey |-> newMasterKey, wrapPin |-> pin,
             failedAttempts |-> newMasterKey,
             lockUntil |-> NoTime, lastFailedTimestamp |-> NoTime]]
       /\ masterKey' = [masterKey EXCEPT ![d] = newMasterKey]
  /\ isAuthenticated' = [isAuthenticated EXCEPT ![d] = TRUE]
  /\ failedAttempts' = [failedAttempts EXCEPT ![d] = 0]
  /\ lastAuth' = [lastAuth EXCEPT ![d] = NoAuth]
  /\ ResetAutoLockTimerOnUnlock(d)
  /\ UNCHANGED <<now, lockUntil, biometric, credCount,
                 pendingAuth, recVars>>

\* the VaultMeta saved as it was read
KeptMeta(m, unwrappedKey) ==
  m

\* lines 122-128: the VaultMeta saved after a successful unwrap: '0'
\* encrypted under the unwrapped key, no lockUntil, no lastFailedTimestamp
ResetMeta(m, unwrappedKey) ==
  [m EXCEPT !.failedAttempts = unwrappedKey,
            !.lockUntil = NoTime,
            !.lastFailedTimestamp = NoTime]

\* no lockout is ever found active
LockoutNever(m, t) ==
  FALSE

\* lines 101-104: meta.lockUntil is set and lies after new Date()
LockoutActive(m, t) ==
  m.lockUntil # NoTime /\ m.lockUntil > t

AuthenticateFrom(d, pin, m) ==
  IF m = NoMeta
    THEN \* line 97: no VaultMeta, return false
      /\ lastAuth' = [lastAuth EXCEPT ![d] =
           [outcome |-> "notSetup", streak |-> @.streak, pin |-> pin,
                failures |-> 0]]
      /\ UNCHANGED <<now, meta, isAuthenticated, masterKey, lockUntil,
                     failedAttempts, keyCount, biometric, credCount,
                 autoLockTimer, idleSince, recVars>>
    ELSE IF LockoutActive(m, now)
      THEN \* lines 101-107: lockout active, return false
        /\ lockUntil' = [lockUntil EXCEPT ![d] = m.lockUntil]
        /\ lastAuth' = [lastAuth EXCEPT ![d] =
             [outcome |-> "lockedOut", streak |-> @.streak, pin |-> pin,
                failures |-> 0]]
        /\ UNCHANGED <<now, meta, isAuthenticated, masterKey, failedAttempts,
                       keyCount, biometric, credCount,
                 autoLockTimer, idleSince, recVars>>
      ELSE IF UnwrapMasterKey(m, pin) # NoKey
        THEN \* lines 121-135: success
          /\ meta' = [meta EXCEPT ![d] = ResetMeta(m, UnwrapMasterKey(m, pin))]
          /\ masterKey' = [masterKey EXCEPT ![d] = UnwrapMasterKey(m, pin)]
          /\ isAuthenticated' = [isAuthenticated EXCEPT ![d] = TRUE]
          /\ failedAttempts' = [failedAttempts EXCEPT ![d] = 0]
          /\ lockUntil' = [lockUntil EXCEPT ![d] = NoTime]
          /\ lastAuth' = [lastAuth EXCEPT ![d] =
               [outcome |-> "ok", streak |-> 0, pin |-> pin,
                failures |-> @.streak]]
          /\ ResetAutoLockTimerOnUnlock(d)
          /\ UNCHANGED <<now, keyCount, biometric, credCount,
                 recVars>>
        ELSE \* lines 136-179: wrong PIN
          LET newAttempts == CapturedFailedAttempts(d) + 1
              newLockUntil == NewLockUntil(newAttempts, now)
          IN
          /\ lastAuth[d].streak < MaxStreak
          /\ failedAttempts' = [failedAttempts EXCEPT ![d] = newAttempts]
          /\ IF newLockUntil # NoTime
               THEN /\ lockUntil' = [lockUntil EXCEPT ![d] = newLockUntil]
                    /\ meta' = [meta EXCEPT ![d] =
                         [m EXCEPT !.lockUntil = newLockUntil,
                                   !.lastFailedTimestamp = now]]
               ELSE /\ lockUntil' = lockUntil
                    /\ meta' = [meta EXCEPT ![d] =
                         [m EXCEPT !.lastFailedTimestamp = now]]
          /\ lastAuth' = [lastAuth EXCEPT ![d] =
               [outcome |-> "wrong", streak |-> @.streak + 1, pin |-> pin,
                failures |-> 0]]
          /\ UNCHANGED <<now, isAuthenticated, masterKey, keyCount, biometric,
                         credCount,
                 autoLockTimer, idleSince, recVars>>

\* how a call of authenticate that took the branch named by outcome ends:
\* return false of lines 98, 105 and 178, return true of line 135; no
\* branch ends by throwing
AuthenticateReturns(outcome) ==
  CASE outcome = "ok" -> "true"
    [] outcome \in {"notSetup", "lockedOut", "wrong"} -> "false"
    [] OTHER -> "none"

\* authenticate(pin) with nothing else running between its awaits
Authenticate(d, pin) ==
  /\ pendingAuth[d] = NoCall
  /\ AuthenticateFrom(d, pin, meta[d])
  /\ UNCHANGED pendingAuth

\* line 96 of a call of authenticate: the VaultMeta is read; the awaits that
\* follow (key derivation, unwrapping, encryption) let other calls run
AuthenticateReads(d, pin) ==
  /\ pendingAuth[d] = NoCall
  /\ pendingAuth' = [pendingAuth EXCEPT ![d] = [pin |-> pin, meta |-> meta[d]]]
  /\ UNCHANGED <<now, meta, isAuthenticated, masterKey, lockUntil,
                 failedAttempts, keyCount, biometric, credCount, lastAuth,
                 autoLockTimer, idleSince, recVars>>

\* lines 97-183 of that call, from the VaultMeta it has read
AuthenticateWrites(d) ==
  /\ pendingAuth[d] # NoCall
  /\ AuthenticateFrom(d, pendingAuth[d].pin, pendingAuth[d].meta)
  /\ pendingAuth' = [pendingAuth EXCEPT ![d] = NoCall]

\* the lockUntil values of the VaultMeta of a backup file
ImportedLockUntils ==
  {NoTime, LOCKOUT_SCHEDULE[2] * 1000 + 1}

\* dataPortabilityService.importData(file) of a backup file that holds a
\* VaultMeta and no records: the VaultMeta is saved when the device has none
ImportData(d, pin, until) ==
  /\ meta[d] = NoMeta
  /\ meta' = [meta EXCEPT ![d] =
       [k |-> "config", wrappedKey |-> <<"backup", 1>>, wrapPin |-> pin,
        failedAttempts |-> <<"backup", 1>>, lockUntil |-> until,
        lastFailedTimestamp |-> NoTime]]
  /\ UNCHANGED <<now, isAuthenticated, masterKey, lockUntil, failedAttempts,
                 keyCount, biometric, credCount, lastAuth, autoLockTimer, idleSince,
                 pendingAuth, recVars>>

\* a lock that leaves the master key in memory
LockKeepsKey(d) ==
  /\ isAuthenticated' = [isAuthenticated EXCEPT ![d] = FALSE]
  /\ autoLockTimer' = [autoLockTimer EXCEPT ![d] = NoTimer]
  /\ idleSince' = [idleSince EXCEPT ![d] = NoTime]
  /\ UNCHANGED <<now, meta, masterKey, lockUntil, failedAttempts, keyCount,
                 biometric, credCount, lastAuth, pendingAuth, recVars>>

\* lines 187-193: lock()
Lock(d) ==
  /\ isAuthenticated' = [isAuthenticated EXCEPT ![d] = FALSE]
  /\ masterKey' = [masterKey EXCEPT ![d] = NoKey]
  /\ autoLockTimer' = [autoLockTimer EXCEPT ![d] = NoTimer]
  /\ idleSince' = [idleSince EXCEPT ![d] = NoTime]
  /\ UNCHANGED <<now, meta, lockUntil, failedAttempts, keyCount, biometric,
                 credCount, lastAuth,
                 pendingAuth, recVars>>

\* a mousedown, keydown, touchstart or scroll event, or the tab becoming
\* visible again: the listeners of the latest render call its
\* resetAutoLockTimer when that render's isAuthenticated is true
Activity(d) ==
  /\ isAuthenticated[d]
  /\ autoLockTimer' = [autoLockTimer EXCEPT ![d] =
       ResetAutoLockTimer(now, isAuthenticated[d])]
  /\ idleSince' = [idleSince EXCEPT ![d] = now]
  /\ UNCHANGED <<now, meta, isAuthenticated, masterKey, lockUntil,
                 failedAttempts, keyCount, biometric, credCount, lastAuth,
                 pendingAuth, recVars>>

\* lines 207-211: the timeout callback runs when it is due and calls lock()
\* when the isAuthenticated of its closure is true
AutoLockFires(d) ==
  /\ autoLockTimer[d] # NoTimer
  /\ now >= autoLockTimer[d].due
  /\ autoLockTimer' = [autoLockTimer EXCEPT ![d] = NoTimer]
  /\ IF autoLockTimer[d].isAuthenticated
       THEN /\ isAuthenticated' = [isAuthenticated EXCEPT ![d] = FALSE]
            /\ masterKey' = [masterKey EXCEPT ![d] = NoKey]
            /\ idleSince' = [idleSince EXCEPT ![d] = NoTime]
       ELSE UNCHANGED <<isAuthenticated, masterKey, idleSince>>
  /\ UNCHANGED <<now, meta, lockUntil, failedAttempts, keyCount, biometric,
                 credCount, lastAuth,
                 pendingAuth, recVars>>

\* ------------------------------------------------------------------------
\* BiometricService
\* ------------------------------------------------------------------------
\* enroll(masterKey): the settings page offers it only while unlocked
BiometricEnroll(d) ==
  /\ isAuthenticated[d]
  /\ masterKey[d] # NoKey
  /\ credCount[d] < MaxCreds
  /\ \E created \in BOOLEAN :
       IF created
         THEN LET credentialId == credCount[d] + 1 IN
           /\ credCount' = [credCount EXCEPT ![d] = credentialId]
           /\ biometric' = [biometric EXCEPT ![d] =
                [credentialId |-> credentialId,
                 encryptedKey |-> masterKey[d],
                 encryptedUnder |-> credentialId]]
         ELSE \* navigator.credentials.create fails: both entries are removed
           /\ credCount' = credCount
           /\ biometric' = [biometric EXCEPT ![d] = NoBiometric]
  /\ UNCHANGED <<now, meta, isAuthenticated, masterKey, lockUntil,
                 failedAttempts, keyCount, lastAuth,
                 autoLockTimer, idleSince, pendingAuth, recVars>>

BiometricDisable(d) ==
  /\ biometric[d] # NoBiometric
  /\ biometric' = [biometric EXCEPT ![d] = NoBiometric]
  /\ UNCHANGED <<now, meta, isAuthenticated, masterKey, lockUntil,
                 failedAttempts, keyCount, credCount, lastAuth,
                 autoLockTimer, idleSince, pendingAuth, recVars>>

\* ------------------------------------------------------------------------
\* What can be computed from the persisted state of a device
\* ------------------------------------------------------------------------
\* the AES keys computable from localStorage alone: deriveEncryptionKey is
\* SHA-256 of the credential id, and the credential id is stored in the clear
KeysFromStorage(d) ==
  IF biometric[d].credentialId # NoCred THEN {biometric[d].credentialId} ELSE {}

\* the master keys that decrypt out of the persisted ciphertexts with the
\* keys of KeysFromStorage; the PIN-wrapped copy in VaultMeta needs the PIN
RecoverableMasterKeys(d) ==
  IF /\ biometric[d].encryptedKey # NoKey
     /\ biometric[d].encryptedUnder \in KeysFromStorage(d)
    THEN {biometric[d].encryptedKey}
    ELSE {}

\* ------------------------------------------------------------------------
\* Specification of the authentication gate of one device
\* ------------------------------------------------------------------------
NextAuth ==
  \/ Tick
  \/ LockoutWait
  \/ \E d \in VaultDevices, pin \in Pins : SetupPin(d, pin)
  \/ \E d \in VaultDevices, pin \in Pins : Authenticate(d, pin)
  \/ \E d \in VaultDevices, pin \in Pins, until \in ImportedLockUntils :
       ImportData(d, pin, until)
  \/ \E d \in VaultDevices : Lock(d)
  \/ \E d \in VaultDevices : BiometricEnroll(d)
  \/ \E d \in VaultDevices : BiometricDisable(d)

SpecAuth ==
  InitAuth /\ [][NextAuth]_vars

\* ------------------------------------------------------------------------
\* Specification of the auto-lock timer of one device
\* ------------------------------------------------------------------------
NextLock ==
  \/ Tick
  \/ AutoLockWait
  \/ \E d \in VaultDevices, pin \in Pins : SetupPin(d, pin)
  \/ \E d \in VaultDevices, pin \in Pins : Authenticate(d, pin)
  \/ \E d \in VaultDevices : Lock(d)
  \/ \E d \in VaultDevices : Activity(d)
  \/ \E d \in VaultDevices : AutoLockFires(d)

SpecLock ==
  InitAuth /\ [][NextLock]_vars

\* the page is loaded again: AuthProvider mounts with the useState and useRef
\* initial values of lines 32-39; IndexedDB and localStorage are kept
Restart(d) ==
  /\ isAuthenticated' = [isAuthenticated EXCEPT ![d] = FALSE]
  /\ masterKey' = [masterKey EXCEPT ![d] = NoKey]
  /\ lockUntil' = [lockUntil EXCEPT ![d] = NoTime]
  /\ failedAttempts' = [failedAttempts EXCEPT ![d] = 0]
  /\ autoLockTimer' = [autoLockTimer EXCEPT ![d] = NoTimer]
  /\ idleSince' = [idleSince EXCEPT ![d] = NoTime]
  /\ pendingAuth' = [pendingAuth EXCEPT ![d] = NoCall]
  /\ lastAuth' = [lastAuth EXCEPT ![d].outcome = "restarted"]
  /\ UNCHANGED <<now, meta, keyCount, biometric, credCount, recVars>>

\* the vault of one device across page loads
NextRestart ==
  \/ Tick
  \/ LockoutWait
  \/ \E d \in VaultDevices, pin \in Pins : SetupPin(d, pin)
  \/ \E d \in VaultDevices, pin \in Pins : Authenticate(d, pin)
  \/ \E d \in VaultDevices : Lock(d)
  \/ \E d \in VaultDevices : Restart(d)

SpecRestart ==
  InitAuth /\ [][NextRestart]_vars

\* ------------------------------------------------------------------------
\* Specification of the calls of setupPin and authenticate of one device
\* that run between each other's awaits
\* ------------------------------------------------------------------------
NextOverlap ==
  \/ Tick
  \/ \E d \in VaultDevices, pin \in Pins : SetupPin(d, pin)
  \/ \E d \in VaultDevices, pin \in Pins : AuthenticateReads(d, pin)
  \/ \E d \in VaultDevices : AuthenticateWrites(d)
  \/ \E d \in VaultDevices : Lock(d)

SpecOverlap ==
  InitAuth /\ [][NextOverlap]_vars

\* ------------------------------------------------------------------------
\* StorageService (IndexedDB object store 'records', keyPath id, autoIncrement)
\* ------------------------------------------------------------------------
Put(store, id, rec) ==
  [i \in DOMAIN store \cup {id} |-> IF i = id THEN rec ELSE store[i]]

Remove(store, id) ==
  [i \in DOMAIN store \ {id} |-> store[i]]

Min(S) ==
  CHOOSE x \in S : \A y \in S : x <= y

\* store.put of a record that carries its id: the key generator moves past it
BumpedNextId(n, id) ==
  IF id >= n THEN id + 1 ELSE n

\* history: device d, or its user, writes a record
Dirtied(d, userWrite) ==
  [e \in Devices |-> IF e = d /\ ~userWrite THEN clean[e] ELSE "dirty"]

\* ------------------------------------------------------------------------
\* FirebaseSyncService.syncToCloud, up to its first await
\* ------------------------------------------------------------------------
\* the guards without the test of the in-flight flag
SyncStartsUnguarded(d, signed) ==
  signed

\* TRUE when a call of syncToCloud made now on device d passes both guards
SyncStarts(d, signed) ==
  /\ ~syncInProgress[d]
  /\ signed

\* the caller's effect on the sync state: a call that passes the guards sets
\* the flag and a fresh result; a rejected call leaves the service untouched
CallSyncToCloud(d, signed) ==
  IF SyncStarts(d, signed)
    THEN /\ syncInProgress' = [syncInProgress EXCEPT ![d] = TRUE]
         /\ phase' = [phase EXCEPT ![d] = "fetch"]
         /\ result' = [result EXCEPT ![d] = NoResult]
         /\ syncCalls' = [syncCalls EXCEPT ![d] =
              [bodies |-> @.bodies + 1, rejected |-> "none"]]
    ELSE /\ UNCHANGED <<syncInProgress, phase, result>>
         /\ syncCalls' = [syncCalls EXCEPT ![d].rejected =
              IF syncInProgress[d] THEN "Sync already in progress"
              ELSE "User not signed in"]

\* if (firebaseSyncService.canSync()) firebaseSyncService.syncToCloud()
BackgroundSync(d) ==
  IF signedIn[d]
    THEN CallSyncToCloud(d, TRUE)
    ELSE UNCHANGED <<syncInProgress, phase, result, syncCalls>>

\* the history of the write of record id by addRecord or updateRecord
Mutated(d, id, storedRecord) ==
  mutation' = [mutation EXCEPT ![d] =
    IF signedIn[d] /\ SyncStarts(d, TRUE)
      THEN [id |-> id, record |-> storedRecord]
      ELSE IF @.id = id THEN NoMutation ELSE @]

\* a write of document id to the collection is reported to every listener,
\* the writer's own included, in its next snapshot
DocChanged(id) ==
  listener' = [x \in Devices |-> [listener[x] EXCEPT !.unseen = @ \cup {id}]]

\* ------------------------------------------------------------------------
\* VaultProvider
\* ------------------------------------------------------------------------
AddRecord(d, isPrivate) ==
  /\ ops < MaxOps
  /\ ops' = ops + 1
  /\ nextId[d] <= MaxId
  /\ LET encrypts == isPrivate /\ masterKey[d] # NoKey
         id == nextId[d]
         storedRecord ==
           [updatedAt |-> now, isPrivate |-> isPrivate,
            ciphertext |-> IF encrypts THEN d ELSE NoData,
            cipherKey |-> IF encrypts THEN masterKey[d] ELSE NoKey,
            plaintext |-> IF encrypts THEN NoData ELSE d,
            cloudUpdatedAt |-> NoTime, deviceId |-> NoDevice, deleted |-> FALSE]
     IN
       /\ local' = [local EXCEPT ![d] = Put(@, id, storedRecord)]
       /\ nextId' = [nextId EXCEPT ![d] = id + 1]
       /\ Mutated(d, id, storedRecord)
       /\ createdBy' = [createdBy EXCEPT ![id] = @ \cup {d}]
       /\ soleAdd' = [e \in Devices |->
            IF e # d THEN soleAdd[e] \ {id}
            ELSE IF \/ \E x \in Devices \ {d} : id \in DOMAIN local[x]
                    \/ id \in DOMAIN cloud /\ ~cloud[id].deleted
              THEN soleAdd[e]
              ELSE soleAdd[e] \cup {id}]
  /\ BackgroundSync(d)
  /\ clean' = Dirtied(d, TRUE)
  /\ UNCHANGED <<now, authVars, cloud, syncMeta, signedIn, pos, localRecords,
                 cloudRecords, edits, pendingRemoval,
                 listener>>

\* updateRecord(id, updates); a call that throws changes nothing
UpdateRecord(d, id) ==
  /\ ops < MaxOps
  /\ ops' = ops + 1
  /\ id \in DOMAIN local[d]
  /\ LET existingRecord == local[d][id]
         decrypts == /\ existingRecord.isPrivate
                     /\ existingRecord.ciphertext # NoData
                     /\ masterKey[d] # NoKey
         encrypts == existingRecord.isPrivate /\ masterKey[d] # NoKey
         storedRecord ==
           IF encrypts
             THEN [existingRecord EXCEPT !.updatedAt = now, !.ciphertext = d,
                                         !.cipherKey = masterKey[d]]
             ELSE [existingRecord EXCEPT !.updatedAt = now, !.plaintext = d]
     IN
       \* decryptData throws under another key; no data at all: 'Invalid record data'
       /\ IF decrypts
            THEN existingRecord.cipherKey = masterKey[d]
            ELSE existingRecord.plaintext # NoData
       /\ local' = [local EXCEPT ![d] = Put(@, id, storedRecord)]
       /\ nextId' = [nextId EXCEPT ![d] = BumpedNextId(@, id)]
       /\ Mutated(d, id, storedRecord)
  /\ BackgroundSync(d)
  /\ clean' = Dirtied(d, TRUE)
  /\ edits' = [edits EXCEPT ![id][d] = now]
  /\ UNCHANGED <<now, authVars, createdBy, cloud, syncMeta, signedIn, pos,
                 localRecords, cloudRecords, pendingRemoval, soleAdd,
                 listener>>

\* FirebaseSyncService.deleteRecord: setDoc(..., {merge: true}) of the tombstone
Tombstone(doc, d, t) ==
  [doc EXCEPT !.deleted = TRUE, !.cloudUpdatedAt = t, !.deviceId = d]

\* deleteRecord(id) of a record the device holds; written: the tombstone
\* reaches the cloud (it is attempted only when signed in, and a failure is
\* only logged)
DeleteRecord(d, id, written) ==
  /\ ops < MaxOps
  /\ ops' = ops + 1
  /\ id \in DOMAIN local[d]
  /\ local' = [local EXCEPT ![d] = Remove(@, id)]
  /\ written => signedIn[d]
  /\ cloud' = IF written
                THEN Put(cloud, id,
                         Tombstone(IF id \in DOMAIN cloud THEN cloud[id]
                                   ELSE NoRecord, d, now))
                ELSE cloud
  /\ IF written THEN DocChanged(id) ELSE UNCHANGED listener
  /\ clean' = Dirtied(d, TRUE)
  /\ pendingRemoval' =
       [e \in Devices |->
          IF e = d
            THEN [pendingRemoval[e] EXCEPT ![id] = "no"]
            ELSE IF written /\ id \in DOMAIN local[e] /\ Cardinality(createdBy[id]) = 1
              THEN [pendingRemoval[e] EXCEPT ![id] = "pending"]
              ELSE pendingRemoval[e]]
  /\ soleAdd' = [e \in Devices |-> soleAdd[e] \ {id}]
  /\ mutation' = [mutation EXCEPT ![d] = IF @.id = id THEN NoMutation ELSE @]
  /\ UNCHANGED <<now, authVars, nextId, createdBy, syncMeta, signedIn,
                 syncInProgress, phase, pos, localRecords, cloudRecords, result,
                 edits, syncCalls>>

\* ------------------------------------------------------------------------
\* SyncProvider
\* ------------------------------------------------------------------------
\* onAuthStateChange(user): the provider syncs as soon as the user is signed in
SignIn(d) ==
  /\ ops < MaxOps
  /\ ops' = ops + 1
  /\ ~signedIn[d]
  /\ signedIn' = [signedIn EXCEPT ![d] = TRUE]
  /\ CallSyncToCloud(d, TRUE)
  /\ UNCHANGED <<now, authVars, local, nextId, createdBy, cloud, syncMeta, pos,
                 localRecords, cloudRecords, clean, edits, pendingRemoval,
                 soleAdd, mutation,
                 listener>>

SignOut(d) ==
  /\ ops < MaxOps
  /\ ops' = ops + 1
  /\ signedIn[d]
  /\ signedIn' = [signedIn EXCEPT ![d] = FALSE]
  /\ UNCHANGED <<now, authVars, local, nextId, createdBy, cloud, syncMeta,
                 syncInProgress, phase, pos, localRecords, cloudRecords, result,
                 clean, edits, pendingRemoval, soleAdd, syncCalls, mutation,
                 listener>>

\* a call of syncToCloud() on its own: performSync, a timer
SyncToCloud(d) ==
  /\ ops < MaxOps
  /\ ops' = ops + 1
  /\ CallSyncToCloud(d, signedIn[d])
  /\ UNCHANGED <<now, authVars, local, nextId, createdBy, cloud, syncMeta,
                 signedIn, pos, localRecords, cloudRecords, clean, edits,
                 pendingRemoval, soleAdd, mutation,
                 listener>>

\* syncNow(): a call that passes the guards of syncToCloud
SyncNow(d) ==
  /\ SyncStarts(d, signedIn[d])
  /\ SyncToCloud(d)

\* ------------------------------------------------------------------------
\* FirebaseSyncService.syncToCloud, after its first await
\* ------------------------------------------------------------------------
\* downloadAllRecords: live documents, and tombstones younger than 24 hours
DownloadAllRecords(t) ==
  LET kept == {i \in DOMAIN cloud :
                 \/ ~cloud[i].deleted
                 \/ /\ cloud[i].cloudUpdatedAt # NoTime
                    /\ t - cloud[i].cloudUpdatedAt < TOMBSTONE_TTL}
  IN [i \in kept |-> cloud[i]]

\* the first loop with its two timestamp comparisons the other way round
LocalDecisionReversed(localRecord, inCloud, cloudRecord, self) ==
  IF ~inCloud THEN "upload"
  ELSE IF cloudRecord.deleted THEN "deleteLocal"
  ELSE IF localRecord.updatedAt < cloudRecord.cloudUpdatedAt
    THEN IF cloudRecord.deviceId # self THEN "upload" ELSE "none"
  ELSE IF cloudRecord.cloudUpdatedAt < localRecord.updatedAt THEN "download"
  ELSE "none"

\* lines 123-154: what the first loop does with one local record
LocalDecision(localRecord, inCloud, cloudRecord, self) ==
  IF ~inCloud THEN "upload"
  ELSE IF cloudRecord.deleted THEN "deleteLocal"
  ELSE IF localRecord.updatedAt > cloudRecord.cloudUpdatedAt
    THEN IF cloudRecord.deviceId # self THEN "upload" ELSE "none"
  ELSE IF cloudRecord.cloudUpdatedAt > localRecord.updatedAt THEN "download"
  ELSE "none"

DecisionFor(d, id) ==
  LocalDecision(localRecords[d][id], id \in DOMAIN cloudRecords[d],
                IF id \in DOMAIN cloudRecords[d] THEN cloudRecords[d][id]
                ELSE NoRecord, d)

\* uploadRecord: the document written by setDoc (no merge)
CloudRecordOf(record, d, t) ==
  [record EXCEPT !.cloudUpdatedAt = t, !.deviceId = d]

\* the iterations of the two loops that await something; the others touch
\* nothing but the sync's own maps
RemainingLocal(d) ==
  {i \in DOMAIN localRecords[d] : i >= pos[d] /\ DecisionFor(d, i) # "none"}

InCloudLoop(d) ==
  \/ phase[d] = "cloud"
  \/ phase[d] = "local" /\ RemainingLocal(d) = {}

CloudPos(d) ==
  IF phase[d] = "cloud" THEN pos[d] ELSE 1

RemainingCloud(d) ==
  {i \in DOMAIN cloudRecords[d] :
     /\ i >= CloudPos(d)
     /\ i \notin DOMAIN localRecords[d]
     /\ ~cloudRecords[d][i].deleted}

Count(r, field) ==
  [r EXCEPT ![field] = @ + 1]

\* a call that ends without touching the in-flight flag
FlagLeftSet(d) ==
  syncInProgress

\* line 193: the finally block of syncToCloud, run on every way out of the
\* try block
FlagCleared(d) ==
  [syncInProgress EXCEPT ![d] = FALSE]

\* lines 104-118: both reads; ok: they succeed (a failing read is fatal to
\* the sync, and the remote read fails when the user has signed out)
SyncFetch(d, ok) ==
  /\ phase[d] = "fetch"
  /\ ok => signedIn[d]
  /\ IF ok
       THEN /\ localRecords' = [localRecords EXCEPT ![d] = local[d]]
            /\ cloudRecords' = [cloudRecords EXCEPT ![d] = DownloadAllRecords(now)]
            /\ phase' = [phase EXCEPT ![d] = "local"]
            /\ pos' = [pos EXCEPT ![d] = 1]
            /\ UNCHANGED <<syncInProgress, result>>
       ELSE /\ result' = [result EXCEPT ![d] = Count(@, "errors")]
            /\ syncInProgress' = FlagCleared(d)
            /\ phase' = [phase EXCEPT ![d] = "idle"]
            /\ UNCHANGED <<localRecords, cloudRecords, pos>>
  /\ syncCalls' = IF ok THEN syncCalls
                  ELSE [syncCalls EXCEPT ![d].bodies = @ - 1]
  /\ mutation' = IF ok THEN mutation ELSE [mutation EXCEPT ![d] = NoMutation]
  /\ clean' = [clean EXCEPT ![d] =
       IF ~ok THEN "dirty" ELSE IF @ = "dirty" THEN "synced" ELSE "repeat"]
  /\ pendingRemoval' = [pendingRemoval EXCEPT ![d] =
       [i \in Ids |-> IF ok /\ @[i] = "pending" THEN "due" ELSE @[i]]]
  /\ UNCHANGED <<now, authVars, ops, local, nextId, createdBy, cloud, syncMeta,
                 signedIn, edits, soleAdd,
                 listener>>

\* a loop that a failing iteration ends
NextPosAborting(id, ok) ==
  IF ok THEN id + 1 ELSE MaxId + 1

\* lines 121-122, 155-158 and 162-163, 175-178: try and catch lie inside
\* the loop body, so the loop goes on with the next record either way
NextPos(id, ok) ==
  id + 1

\* lines 121-159: one iteration of the loop over localRecords; ok: the
\* awaited write of the iteration (setDoc, saveRecord, deleteRecord) succeeds
SyncLocalStep(d, ok) ==
  /\ phase[d] = "local"
  /\ RemainingLocal(d) # {}
  /\ LET id == Min(RemainingLocal(d))
         localRecord == localRecords[d][id]
         decision == DecisionFor(d, id)
     IN
       /\ pos' = [pos EXCEPT ![d] = NextPos(id, ok)]
       /\ CASE decision = "upload" ->
                 /\ ok => signedIn[d]
                 /\ cloud' = IF ok THEN Put(cloud, id, CloudRecordOf(localRecord, d, now))
                                   ELSE cloud
                 /\ result' = [result EXCEPT ![d] =
                      Count(@, IF ok THEN "uploaded" ELSE "errors")]
                 /\ IF ok THEN DocChanged(id) ELSE UNCHANGED listener
                 /\ UNCHANGED <<local, nextId>>
            [] decision = "deleteLocal" ->
                 /\ local' = [local EXCEPT ![d] =
                      IF ok THEN Remove(@, id) ELSE @]
                 /\ result' = [result EXCEPT ![d] =
                      Count(@, IF ok THEN "deleted" ELSE "errors")]
                 /\ UNCHANGED <<cloud, nextId, listener>>
            [] decision = "download" ->
                 /\ local' = [local EXCEPT ![d] =
                      IF ok THEN Put(@, id, cloudRecords[d][id]) ELSE @]
                 /\ nextId' = [nextId EXCEPT ![d] =
                      IF ok THEN BumpedNextId(@, id) ELSE @]
                 /\ result' = [result EXCEPT ![d] =
                      Count(@, IF ok THEN "downloaded" ELSE "errors")]
                 /\ UNCHANGED <<cloud, listener>>
  /\ clean' = IF ~ok THEN [clean EXCEPT ![d] = "dirty"]
              ELSE IF cloud' # cloud THEN Dirtied(d, FALSE) ELSE clean
  /\ UNCHANGED <<now, authVars, ops, createdBy, syncMeta, signedIn, syncInProgress,
                 phase, localRecords, cloudRecords, edits, pendingRemoval,
                 soleAdd, syncCalls, mutation>>

\* lines 162-179: one iteration of the loop over cloudRecords whose
\* saveRecord throws
SyncCloudStepFails(d) ==
  /\ InCloudLoop(d)
  /\ RemainingCloud(d) # {}
  /\ LET id == Min(RemainingCloud(d)) IN
       /\ pos' = [pos EXCEPT ![d] = NextPos(id, FALSE)]
       /\ phase' = [phase EXCEPT ![d] = "cloud"]
       /\ result' = [result EXCEPT ![d] = Count(@, "errors")]
  /\ clean' = [clean EXCEPT ![d] = "dirty"]
  /\ UNCHANGED <<now, authVars, ops, local, nextId, createdBy, cloud, syncMeta,
                 signedIn, syncInProgress, localRecords, cloudRecords, edits,
                 pendingRemoval, soleAdd, syncCalls, mutation, listener>>

\* lines 162-179: one iteration of the loop over cloudRecords
SyncCloudStep(d) ==
  /\ InCloudLoop(d)
  /\ RemainingCloud(d) # {}
  /\ LET id == Min(RemainingCloud(d)) IN
       /\ pos' = [pos EXCEPT ![d] = NextPos(id, TRUE)]
       /\ phase' = [phase EXCEPT ![d] = "cloud"]
       /\ local' = [local EXCEPT ![d] = Put(@, id, cloudRecords[d][id])]
       /\ nextId' = [nextId EXCEPT ![d] = BumpedNextId(@, id)]
       /\ result' = [result EXCEPT ![d] = Count(@, "downloaded")]
  /\ UNCHANGED <<now, authVars, ops, createdBy, cloud, syncMeta, signedIn,
                 syncInProgress, localRecords, cloudRecords, clean, edits,
                 pendingRemoval, soleAdd, syncCalls, mutation,
                 listener>>

\* lines 181-196: updateSyncMetadata, then the finally block; ok: the write
\* of the meta/sync document succeeds
SyncFinish(d, ok) ==
  /\ InCloudLoop(d)
  /\ RemainingCloud(d) = {}
  /\ ok => signedIn[d]
  /\ syncMeta' = IF ok THEN [lastSyncTime |-> now, deviceId |-> d] ELSE syncMeta
  /\ result' = IF ok THEN result ELSE [result EXCEPT ![d] = Count(@, "errors")]
  /\ syncInProgress' = FlagCleared(d)
  /\ phase' = [phase EXCEPT ![d] = "idle"]
  \* the maps and the loop position die with the call
  /\ pos' = [pos EXCEPT ![d] = 1]
  /\ localRecords' = [localRecords EXCEPT ![d] = EmptyStore]
  /\ cloudRecords' = [cloudRecords EXCEPT ![d] = EmptyStore]
  /\ clean' = IF ok THEN clean ELSE [clean EXCEPT ![d] = "dirty"]
  /\ pendingRemoval' = [pendingRemoval EXCEPT ![d] =
       [i \in Ids |-> IF @[i] = "due" THEN "no" ELSE @[i]]]
  /\ syncCalls' = [syncCalls EXCEPT ![d].bodies = @ - 1]
  /\ mutation' = [mutation EXCEPT ![d] = NoMutation]
  /\ UNCHANGED <<now, authVars, ops, local, nextId, createdBy, cloud, signedIn,
                 edits, soleAdd,
                 listener>>

\* 24 hours pass
DayPass ==
  /\ now \div TOMBSTONE_TTL < MaxDays
  /\ now' = now + TOMBSTONE_TTL
  /\ UNCHANGED <<authVars, recVars>>

\* ------------------------------------------------------------------------
\* FirebaseSyncService.enableRealtimeSync: the onSnapshot callback
\* ------------------------------------------------------------------------
\* lines 308-314: some changed document was written by another device
HasExternalChanges(d, ids) ==
  \E id \in ids \cap DOMAIN cloud : cloud[id].deviceId # d

\* lines 299-320: a snapshot with the documents changed since the latest
\* one. It is ignored while a sync is in flight; otherwise, with a change of
\* another device in it, a call of syncToCloud is deferred by one second
OnSnapshot(d) ==
  /\ signedIn[d]
  /\ listener[d].unseen # {}
  /\ IF ~syncInProgress[d] /\ HasExternalChanges(d, listener[d].unseen)
       THEN /\ listener[d].timers < MaxTimers
            /\ listener' = [listener EXCEPT ![d] =
                 [unseen |-> {}, timers |-> @.timers + 1]]
       ELSE listener' = [listener EXCEPT ![d].unseen = {}]
  /\ UNCHANGED <<now, authVars, local, nextId, createdBy, cloud, syncMeta,
                 signedIn, syncInProgress, phase, pos, localRecords,
                 cloudRecords, result, ops, clean, edits, pendingRemoval,
                 soleAdd, syncCalls, mutation>>

\* line 318: the deferred callback runs and calls syncToCloud(); what the
\* user and the syncs do during the second of delay comes before this step
DebounceFires(d) ==
  /\ listener[d].timers > 0
  /\ listener' = [listener EXCEPT ![d].timers = @ - 1]
  /\ CallSyncToCloud(d, signedIn[d])
  /\ UNCHANGED <<now, authVars, local, nextId, createdBy, cloud, syncMeta,
                 signedIn, pos, localRecords, cloudRecords, ops, clean, edits,
                 pendingRemoval, soleAdd, mutation>>

\* ------------------------------------------------------------------------
\* Specification of two devices of one user, both set up, unlocked and
\* signed in, with a network that does not fail
\* ------------------------------------------------------------------------
InitSync ==
  /\ local = [d \in Devices |-> EmptyStore]
  /\ nextId = [d \in Devices |-> 1]
  /\ createdBy = [i \in Ids |-> {}]
  /\ cloud = EmptyStore
  /\ syncMeta = NoSyncMeta
  /\ signedIn = [d \in Devices |-> TRUE]
  /\ syncInProgress = [d \in Devices |-> FALSE]
  /\ phase = [d \in Devices |-> "idle"]
  /\ pos = [d \in Devices |-> 1]
  /\ localRecords = [d \in Devices |-> EmptyStore]
  /\ cloudRecords = [d \in Devices |-> EmptyStore]
  /\ result = [d \in Devices |-> NoResult]
  /\ ops = 0
  /\ clean = [d \in Devices |-> "dirty"]
  /\ edits = [i \in Ids |-> [d \in Devices |-> NoTime]]
  /\ pendingRemoval = [d \in Devices |-> [i \in Ids |-> "no"]]
  /\ soleAdd = [d \in Devices |-> {}]
  /\ syncCalls = [d \in Devices |-> NoCalls]
  /\ mutation = [d \in Devices |-> NoMutation]
  /\ listener = [d \in Devices |-> NoChanges]
  /\ now = 1
  /\ meta = [d \in Devices |->
       [k |-> "config", wrappedKey |-> <<d, 1>>, wrapPin |-> "1234",
        failedAttempts |-> <<d, 1>>, lockUntil |-> NoTime,
        lastFailedTimestamp |-> NoTime]]
  /\ isAuthenticated = [d \in Devices |-> TRUE]
  /\ masterKey = [d \in Devices |-> <<d, 1>>]
  /\ lockUntil = [d \in Devices |-> NoTime]
  /\ failedAttempts = [d \in Devices |-> 0]
  /\ keyCount = [d \in Devices |-> 1]
  /\ biometric = [d \in Devices |-> NoBiometric]
  /\ credCount = [d \in Devices |-> 0]
  /\ lastAuth = [d \in Devices |-> NoAuth]
  /\ autoLockTimer = [d \in Devices |->
       [due |-> 1 + AUTO_LOCK_TIMEOUT * 1000, isAuthenticated |-> TRUE]]
  /\ idleSince = [d \in Devices |-> 1]
  /\ pendingAuth = [d \in Devices |-> NoCall]

NextSync ==
  \/ Tick
  \/ \E d \in Devices, isPrivate \in SyncKinds : AddRecord(d, isPrivate)
  \/ \E d \in Devices, id \in Ids : UpdateRecord(d, id)
  \/ \E d \in Devices, id \in Ids : DeleteRecord(d, id, TRUE)
  \/ \E d \in Devices : SyncNow(d)
  \/ \E d \in Devices : SyncFetch(d, TRUE)
  \/ \E d \in Devices : SyncLocalStep(d, TRUE)
  \/ \E d \in Devices : SyncCloudStep(d)
  \/ \E d \in Devices : SyncFinish(d, TRUE)

SpecSync ==
  InitSync /\ [][NextSync]_vars

\* ------------------------------------------------------------------------
\* Specification of the same two devices over days: records are added and
\* deleted but not edited, and the clock moves in steps of 24 hours
\* ------------------------------------------------------------------------
NextAging ==
  \/ DayPass
  \/ \E d \in Devices, isPrivate \in SyncKinds : AddRecord(d, isPrivate)
  \/ \E d \in Devices, id \in Ids : DeleteRecord(d, id, TRUE)
  \/ \E d \in Devices : SyncNow(d)
  \/ \E d \in Devices : SyncFetch(d, TRUE)
  \/ \E d \in Devices : SyncLocalStep(d, TRUE)
  \/ \E d \in Devices : SyncCloudStep(d)
  \/ \E d \in Devices : SyncFinish(d, TRUE)

SpecAging ==
  InitSync /\ [][NextAging]_vars

\* ------------------------------------------------------------------------
\* Specification of one device from a fresh installation: the vault, its
\* records and its sync with the cloud
\* ------------------------------------------------------------------------
NextVault ==
  \/ \E d \in VaultDevices, pin \in Pins : SetupPin(d, pin)
  \/ \E d \in VaultDevices, pin \in Pins : Authenticate(d, pin)
  \/ \E d \in VaultDevices : Lock(d)
  \/ \E d \in VaultDevices, isPrivate \in BOOLEAN : AddRecord(d, isPrivate)
  \/ \E d \in VaultDevices, id \in Ids : UpdateRecord(d, id)
  \/ \E d \in VaultDevices, id \in Ids, written \in BOOLEAN : DeleteRecord(d, id, written)
  \/ \E d \in VaultDevices : SignIn(d)
  \/ \E d \in VaultDevices : SyncNow(d)
  \/ \E d \in VaultDevices : SyncFetch(d, TRUE)
  \/ \E d \in VaultDevices : SyncLocalStep(d, TRUE)
  \/ \E d \in VaultDevices : SyncCloudStep(d)
  \/ \E d \in VaultDevices : SyncFinish(d, TRUE)

SpecVault ==
  InitAuth /\ [][NextVault]_vars

\* ------------------------------------------------------------------------
\* Specification of the sync service of one device, set up, unlocked and
\* signed in at first, whose user signs out and in and whose reads and
\* writes of the cloud may fail
\* ------------------------------------------------------------------------
NextService ==
  \/ Tick
  \/ \E d \in VaultDevices, isPrivate \in SyncKinds : AddRecord(d, isPrivate)
  \/ \E d \in VaultDevices, id \in Ids : UpdateRecord(d, id)
  \/ \E d \in VaultDevices, id \in Ids, written \in BOOLEAN : DeleteRecord(d, id, written)
  \/ \E d \in VaultDevices : SignIn(d)
  \/ \E d \in VaultDevices : SignOut(d)
  \/ \E d \in VaultDevices : SyncToCloud(d)
  \/ \E d \in VaultDevices, ok \in BOOLEAN : SyncFetch(d, ok)
  \/ \E d \in VaultDevices, ok \in BOOLEAN : SyncLocalStep(d, ok)
  \/ \E d \in VaultDevices : SyncCloudStep(d)
  \/ \E d \in VaultDevices : SyncCloudStepFails(d)
  \/ \E d \in VaultDevices, ok \in BOOLEAN : SyncFinish(d, ok)

SpecService ==
  InitSync /\ [][NextService]_vars

\* a step of the running call of syncToCloud on device d: one of its awaits
\* settles, by resolving or by rejecting
SyncStep(d) ==
  \/ \E ok \in BOOLEAN : SyncFetch(d, ok)
  \/ \E ok \in BOOLEAN : SyncLocalStep(d, ok)
  \/ SyncCloudStep(d)
  \/ SyncCloudStepFails(d)
  \/ \E ok \in BOOLEAN : SyncFinish(d, ok)

\* the same service when every await of a running syncToCloud settles
SpecServiceFair ==
  SpecService /\ \A d \in VaultDevices : WF_vars(SyncStep(d))

\* ------------------------------------------------------------------------
\* Specification of two devices with their real-time listeners
\* ------------------------------------------------------------------------
NextRealtime ==
  \/ \E d \in Devices, isPrivate \in SyncKinds : AddRecord(d, isPrivate)
  \/ \E d \in Devices : SyncNow(d)
  \/ \E d \in Devices : SyncFetch(d, TRUE)
  \/ \E d \in Devices : SyncLocalStep(d, TRUE)
  \/ \E d \in Devices : SyncCloudStep(d)
  \/ \E d \in Devices : SyncFinish(d, TRUE)
  \/ \E d \in Devices : OnSnapshot(d)
  \/ \E d \in Devices : DebounceFires(d)

SpecRealtime ==
  InitSync /\ [][NextRealtime]_vars

\* ------------------------------------------------------------------------
\* Specification of two devices with their real-time listeners whose users
\* edit and delete for a while and then stop: every sync is started by
\* addRecord, by updateRecord or by a listener
\* ------------------------------------------------------------------------
NextQuiet ==
  \/ Tick
  \/ \E d \in VaultDevices, isPrivate \in SyncKinds :
       ops < MaxQuietOps /\ AddRecord(d, isPrivate)
  \/ \E d \in Devices, id \in Ids :
       ops < MaxQuietOps /\ UpdateRecord(d, id)
  \/ \E d \in Devices, id \in Ids :
       ops < MaxQuietOps /\ DeleteRecord(d, id, TRUE)
  \/ \E d \in Devices : SyncFetch(d, TRUE)
  \/ \E d \in Devices : SyncLocalStep(d, TRUE)
  \/ \E d \in Devices : SyncCloudStep(d)
  \/ \E d \in Devices : SyncFinish(d, TRUE)
  \/ \E d \in Devices : OnSnapshot(d)
  \/ \E d \in Devices : DebounceFires(d)

SpecQuiet ==
  InitSync /\ [][NextQuiet]_vars

\* ------------------------------------------------------------------------
\* Properties
\* ------------------------------------------------------------------------
\* the wait, in seconds, that the lockout schedule gives the n-th failure
ScheduledWait(n) ==
  CASE n = 1 -> 0
    [] n = 2 -> 30
    [] n = 3 -> 600
    [] n = 4 -> 3600
    [] OTHER -> 21600

\* C1: counted from failedAttempts = 0, the n-th wrong PIN in a row (no
\* lockout active at the call, no success in between) leaves
\* failedAttempts = n and lockUntil = now + 0, 30, 600, 3600, 21600 seconds
\* for n = 1, 2, 3, 4, >= 5 (for n = 1, no lockout at all is the same wait)
C1_LockoutSchedule ==
  [][\A d \in Devices :
       (lastAuth'[d].outcome = "wrong" /\ lastAuth'[d].streak = lastAuth[d].streak + 1)
         => LET n == lastAuth'[d].streak IN
              /\ failedAttempts'[d] = n
              /\ \/ lockUntil'[d] = now + ScheduledWait(n) * 1000
                 \/ n = 1 /\ lockUntil'[d] = NoTime]_vars

\* the case of C1: a second wrong PIN in a row has been entered
C1_SecondFailure ==
  \E d \in Devices : lastAuth[d].outcome = "wrong" /\ lastAuth[d].streak = 2

\* C2: every record of a local store with isPrivate = true carries its
\* ciphertext (and iv) and no plaintext, whether the vault was locked or
\* unlocked when addRecord or updateRecord stored it
C2_PrivateRecordsEncrypted ==
  \A d \in Devices, id \in Ids :
    (id \in DOMAIN local[d] /\ local[d][id].isPrivate)
      => /\ local[d][id].ciphertext # NoData
         /\ local[d][id].plaintext = NoData

\* C3: no master key can be computed from the persisted state of a device
\* (VaultMeta and the localStorage entries) without the PIN, before and after
\* biometric enrolment
C3_MasterKeyNotRecoverable ==
  \A d \in Devices : RecoverableMasterKeys(d) = {}

\* C4: a sync that follows an error-free sync of the same device, with no
\* local or remote write in between, reports uploaded = downloaded =
\* deleted = 0 (each count stands for one write to the local store or to a
\* remote document)
C4_RepeatedSyncIdle ==
  \A d \in Devices :
    clean[d] = "repeat"
      => /\ result[d].uploaded = 0
         /\ result[d].downloaded = 0
         /\ result[d].deleted = 0

\* what a user sees of a record: everything but the two fields of the upload
Content(r) ==
  <<r.updatedAt, r.isPrivate, r.ciphertext, r.cipherKey, r.plaintext>>

\* a sync started now on device d would change the content of some record,
\* locally or in the cloud
SyncWouldChange(d) ==
  LET cr == DownloadAllRecords(now) IN
    \/ \E id \in DOMAIN local[d] :
         LET decision == LocalDecision(local[d][id], id \in DOMAIN cr,
                           IF id \in DOMAIN cr THEN cr[id] ELSE NoRecord, d)
         IN \/ decision \in {"upload", "deleteLocal"}
            \/ decision = "download" /\ Content(cr[id]) # Content(local[d][id])
    \/ \E id \in DOMAIN cr \ DOMAIN local[d] : ~cr[id].deleted

\* no sync is running and none would change anything
Settled ==
  \A d \in Devices : phase[d] = "idle" /\ ~SyncWouldChange(d)

\* C5: last-write-wins: when a record that both devices hold has been edited
\* on device d at t1 and on device e at t2 > t1 and the devices have synced
\* until no sync changes anything, both local stores and the cloud document
\* hold the edit with updatedAt = t2
C5_LastWriteWins ==
  \A id \in Ids : \A d \in Devices, e \in Devices :
    (/\ Settled
     /\ Cardinality(createdBy[id]) = 1
     /\ edits[id][d] # NoTime
     /\ edits[id][d] < edits[id][e]
     /\ \A x \in Devices : edits[id][x] <= edits[id][e]
     /\ id \in DOMAIN cloud /\ ~cloud[id].deleted
     /\ \A x \in Devices : id \in DOMAIN local[x])
      => /\ cloud[id].updatedAt = edits[id][e]
         /\ \A x \in Devices : local[x][id].updatedAt = edits[id][e]

\* C6: when a sync of device d finds a local record edited after its cloud
\* copy was written (updatedAt > cloudUpdatedAt), whichever device wrote
\* that copy, and no other device touches the document, then as the sync
\* ends without error the cloud document carries the edited content
C6_LocalEditUploaded ==
  [][\A d \in Devices, id \in Ids :
       (/\ phase[d] # "idle" /\ phase'[d] = "idle"
        /\ result'[d].errors = 0
        /\ id \in DOMAIN localRecords[d]
        /\ id \in DOMAIN cloudRecords[d]
        /\ ~cloudRecords[d][id].deleted
        /\ localRecords[d][id].updatedAt > cloudRecords[d][id].cloudUpdatedAt
        /\ id \in DOMAIN cloud
        /\ ~cloud[id].deleted
        /\ cloud[id] = cloudRecords[d][id] \/ cloud[id].deviceId = d)
         => Content(cloud'[id]) = Content(localRecords[d][id])]_vars

\* C7: when a signed-in device deletes a record that both devices hold, the
\* cloud document becomes a tombstone, and the next sync of the other device
\* that reads the stores after that leaves it without the record and with
\* deleted >= 1
C7_DeleteReachesOtherDevice ==
  [][\A d \in Devices, id \in Ids :
       /\ (pendingRemoval[d][id] # "pending" /\ pendingRemoval'[d][id] = "pending")
            => (id \in DOMAIN cloud' /\ cloud'[id].deleted)
       /\ (/\ pendingRemoval[d][id] = "due"
           /\ phase[d] # "idle" /\ phase'[d] = "idle"
           /\ result'[d].errors = 0)
            => (id \notin DOMAIN local'[d] /\ result'[d].deleted >= 1)]_vars

\* C8: record ids are globally unique: no id is given to records created by
\* addRecord on two different devices
C8_GloballyUniqueIds ==
  \A id \in Ids : Cardinality(createdBy[id]) <= 1

NewerThanForeignCopy(d, id) ==
  /\ id \in DOMAIN localRecords[d]
  /\ id \in DOMAIN cloudRecords[d]
  /\ ~cloudRecords[d][id].deleted
  /\ cloudRecords[d][id].deviceId # d
  /\ localRecords[d][id].updatedAt > cloudRecords[d][id].cloudUpdatedAt

\* C10: a local record with updatedAt = T2 whose cloud copy has
\* cloudUpdatedAt = T1 < T2 and was written by another device is uploaded by
\* the sync, which leaves the local store as it is: the step of the first
\* loop for the record writes nothing to the local store and, unless the
\* write fails and is counted in errors, writes the local record to the
\* cloud; and no sync ends without having handled the record so
C10_NewerLocalUploaded ==
  [][\A d \in Devices, id \in Ids :
       /\ (/\ NewerThanForeignCopy(d, id)
           /\ phase[d] = "local" /\ pos[d] <= id /\ pos'[d] = id + 1)
            => /\ local' = local
               /\ \/ result'[d].errors = result[d].errors + 1
                  \/ /\ cloud'[id] = CloudRecordOf(localRecords[d][id], d, now)
                     /\ result'[d].uploaded = result[d].uploaded + 1
       /\ (/\ NewerThanForeignCopy(d, id)
           /\ phase[d] # "idle" /\ phase'[d] = "idle")
            => /\ pos[d] > id \/ phase[d] = "cloud"
               /\ result'[d].uploaded + result'[d].errors >= 1]_vars

\* the case of C10 has happened: the running sync of d has uploaded such a
\* record
C10_Uploaded ==
  \E d \in Devices, id \in Ids :
    /\ NewerThanForeignCopy(d, id)
    /\ phase[d] = "local" /\ pos[d] = id + 1
    /\ result[d].uploaded >= 1
    /\ id \in DOMAIN cloud
    /\ cloud[id].deviceId = d
    /\ Content(cloud[id]) = Content(localRecords[d][id])
    /\ local[d][id] = localRecords[d][id]

\* C11: at most one body of syncToCloud runs on a device at any time; a call
\* made while a sync is in flight returns at once with 'Sync already in
\* progress', starts no body then or later (it is not queued: when the
\* running sync ends no body is left), and neither reads the stores (the
\* running sync's maps and position stay as they are) nor writes a remote
\* document or a count of the running sync's result
C11_OneSyncAtATime ==
  [][\A d \in Devices :
       /\ syncCalls'[d].bodies <= 1
       /\ (/\ syncInProgress[d]
           /\ syncCalls'[d] # syncCalls[d]
           /\ syncCalls'[d].bodies >= syncCalls[d].bodies)
            => /\ syncCalls'[d].bodies = syncCalls[d].bodies
               /\ syncCalls'[d].rejected = "Sync already in progress"
               /\ syncInProgress'[d]
               /\ phase'[d] = phase[d]
               /\ pos'[d] = pos[d]
               /\ localRecords'[d] = localRecords[d]
               /\ cloudRecords'[d] = cloudRecords[d]
               /\ result'[d] = result[d]
               /\ cloud' = cloud
       /\ (phase[d] # "idle" /\ phase'[d] = "idle")
            => (syncCalls'[d].bodies = 0 /\ ~syncInProgress'[d])]_vars

\* the case of C11: a call has been rejected while a sync is in flight
C11_Rejected ==
  \E d \in Devices :
    /\ syncInProgress[d]
    /\ phase[d] = "local"
    /\ syncCalls[d] = [bodies |-> 1, rejected |-> "Sync already in progress"]

\* C12: while the time is before the persisted lockUntil, a call of
\* authenticate returns false for every PIN, the correct one included, and
\* leaves failedAttempts, the persisted VaultMeta, isAuthenticated and the
\* in-memory master key as they are
C12_LockoutShortCircuits ==
  [][\A d \in Devices :
       (/\ meta[d] # NoMeta
        /\ meta[d].lockUntil # NoTime
        /\ now < meta[d].lockUntil
        /\ lastAuth'[d] # lastAuth[d]
        /\ lastAuth'[d].outcome # "none")
         => /\ lastAuth'[d].outcome = "lockedOut"
            /\ failedAttempts'[d] = failedAttempts[d]
            /\ meta'[d] = meta[d]
            /\ isAuthenticated'[d] = isAuthenticated[d]
            /\ masterKey'[d] = masterKey[d]]_vars

\* the case of C12: the correct PIN has been entered during a lockout
C12_CorrectPinRejected ==
  \E d \in Devices :
    /\ meta[d] # NoMeta
    /\ meta[d].lockUntil # NoTime
    /\ now < meta[d].lockUntil
    /\ lastAuth[d].outcome = "lockedOut"
    /\ lastAuth[d].pin = meta[d].wrapPin
    /\ ~isAuthenticated[d]

\* C13: every call of authenticate that returns true leaves the vault
\* unlocked (isAuthenticated, the master key in memory), failedAttempts = 0
\* and lockUntil cleared in memory, and in the persisted VaultMeta the
\* counter reset (the encryption of '0' under the master key) and no
\* lockUntil, whatever the number of failures before
C13_SuccessResets ==
  [][\A d \in Devices :
       (/\ lastAuth'[d].outcome = "ok"
        /\ lastAuth'[d] # lastAuth[d] \/ (~isAuthenticated[d] /\ isAuthenticated'[d]))
         => /\ isAuthenticated'[d]
            /\ masterKey'[d] # NoKey
            /\ masterKey'[d] = meta[d].wrappedKey
            /\ failedAttempts'[d] = 0
            /\ lockUntil'[d] = NoTime
            /\ meta'[d].failedAttempts = masterKey'[d]
            /\ meta'[d].lockUntil = NoTime
            /\ meta'[d].lastFailedTimestamp = NoTime]_vars

\* the case of C13: the correct PIN has been accepted after wrong ones
C13_UnlockedAfterFailures ==
  \E d \in Devices :
    /\ lastAuth[d].outcome = "ok"
    /\ lastAuth[d].failures >= 2
    /\ isAuthenticated[d]
    /\ failedAttempts[d] = 0
    /\ meta[d].lastFailedTimestamp = NoTime

\* C14: when a vault is still unlocked after the auto-lock timeout has passed
\* since its unlock (setupPin or authenticate) or its latest user-input
\* event, the timer that calls lock() is due and about to run
C14_AutoLockAfterIdle ==
  \A d \in Devices :
    (/\ isAuthenticated[d]
     /\ idleSince[d] # NoTime
     /\ now > idleSince[d] + AUTO_LOCK_TIMEOUT * 1000)
      => /\ autoLockTimer[d] # NoTimer
         /\ autoLockTimer[d].isAuthenticated
         /\ autoLockTimer[d].due = idleSince[d] + AUTO_LOCK_TIMEOUT * 1000

\* the case of C14: a vault unlocked and left without user input
\* for the whole timeout, with no timer pending
C14_IdleUnlocked ==
  \E d \in Devices :
    /\ isAuthenticated[d]
    /\ idleSince[d] # NoTime
    /\ now >= idleSince[d] + AUTO_LOCK_TIMEOUT * 1000
    /\ autoLockTimer[d] = NoTimer

\* C15: setupPin and authenticate exclude each other on the VaultMeta: a
\* call of authenticate that saves the VaultMeta saves it over the VaultMeta
\* it has read, never over one that setupPin has saved in between
C15_NoStaleMetaWrite ==
  [][\A d \in Devices :
       (/\ pendingAuth[d] # NoCall
        /\ pendingAuth'[d] = NoCall
        /\ meta'[d] # meta[d])
         => pendingAuth[d].meta = meta[d]]_vars

\* the case of C15: the VaultMeta that setupPin has saved is gone, and the
\* stored one wraps another master key than the one in memory
C15_SetupOverwritten ==
  \E d \in Devices :
    /\ pendingAuth[d] = NoCall
    /\ isAuthenticated[d]
    /\ masterKey[d] # NoKey
    /\ meta[d] # NoMeta
    /\ meta[d].wrappedKey # masterKey[d]

\* C16: addRecord and updateRecord have written the record to the local store
\* when they call syncToCloud, whose body has read nothing yet; and when that
\* sync ends with an error, the local store still holds the record as the
\* call wrote it
C16_LocalWriteSurvivesFailedSync ==
  [][\A d \in Devices :
       /\ (mutation'[d] # NoMutation /\ mutation'[d] # mutation[d])
            => /\ mutation'[d].id \in DOMAIN local'[d]
               /\ local'[d][mutation'[d].id] = mutation'[d].record
               /\ phase[d] = "idle"
               /\ phase'[d] = "fetch"
       /\ (/\ mutation[d] # NoMutation
           /\ phase[d] # "idle"
           /\ phase'[d] = "idle"
           /\ result'[d].errors > 0)
            => /\ mutation[d].id \in DOMAIN local'[d]
               /\ local'[d][mutation[d].id] = mutation[d].record]_vars

\* the case of C16: the sync that updateRecord or addRecord started is about
\* to fail at its last write, after an upload of its own has failed
C16_BackgroundSyncFailing ==
  \E d \in Devices :
    /\ mutation[d] # NoMutation
    /\ phase[d] = "local"
    /\ RemainingLocal(d) = {}
    /\ result[d].errors > 0
    /\ local[d][mutation[d].id] = mutation[d].record

\* C17: the updatedAt that a device stores for a record id never decreases,
\* in any step of updateRecord or of syncToCloud that keeps the record
C17_UpdatedAtMonotonic ==
  [][\A d \in Devices : \A id \in DOMAIN local[d] \cap DOMAIN local'[d] :
       local'[d][id].updatedAt >= local[d][id].updatedAt]_vars

\* the case of C17: a sync has replaced the local copy of a record by a
\* cloud copy that is older than the device's latest updateRecord of it
C17_EditRolledBack ==
  \E d \in Devices : \E id \in DOMAIN local[d] :
    /\ edits[id][d] # NoTime
    /\ createdBy[id] = {d}
    /\ local[d][id].updatedAt < edits[id][d]
    /\ local[d][id].cloudUpdatedAt > edits[id][d]

\* C18: authenticate returns false for a wrong PIN, and reports a missing
\* VaultMeta by throwing, without counting a failed attempt
C18_MissingMetaThrows ==
  \A d \in Devices :
    /\ lastAuth[d].outcome = "wrong"
         => AuthenticateReturns(lastAuth[d].outcome) = "false"
    /\ lastAuth[d].outcome = "notSetup"
         => /\ AuthenticateReturns(lastAuth[d].outcome) = "throws"
            /\ failedAttempts[d] = 0

\* the case of C18: authenticate has been called on a device without VaultMeta
C18_CalledWithoutMeta ==
  \E d \in Devices :
    /\ meta[d] = NoMeta
    /\ lastAuth[d].outcome = "notSetup"
    /\ lastAuth[d].pin \in Pins
    /\ failedAttempts[d] = 0

C20_NoListenerCallInFlight ==
  [][\A d \in Devices :
       listener'[d].timers < listener[d].timers => ~syncInProgress[d]]_vars

\* the case of C20: a sync has started on a device during the delay of a
\* deferred call
C20_SyncStartedDuringDelay ==
  \E d \in Devices :
    /\ listener[d].timers > 0
    /\ syncInProgress[d]
    /\ phase[d] = "fetch"

\* the record of the iteration that the running sync of d makes next
CurrentRecord(d) ==
  IF phase[d] = "local" /\ RemainingLocal(d) # {}
    THEN Min(RemainingLocal(d))
    ELSE Min(RemainingCloud(d))

\* the records that the running sync of d has still to process: local
\* records with something to do, then records that only the cloud holds
ToProcess(d) ==
  IF phase[d] = "local"
    THEN RemainingLocal(d) \cup RemainingCloud(d)
    ELSE RemainingCloud(d)

\* C21: in a sync, an iteration that fails adds one error, changes no counter
\* and no store, and leaves every other local record and every other
\* cloud-only record to be processed as before; and a counter is raised only
\* by an iteration whose write has been made
C21_FailureDoesNotStopBatch ==
  [][\A d \in Devices :
       (/\ phase[d] \in {"local", "cloud"}
        /\ phase'[d] # "idle"
        /\ result'[d] # result[d])
         => LET id == CurrentRecord(d) IN
            /\ result'[d].errors = result[d].errors + 1
                 => /\ result'[d] = [result[d] EXCEPT !.errors = @ + 1]
                    /\ local' = local
                    /\ cloud' = cloud
                    /\ syncInProgress'[d]
                    /\ localRecords'[d] = localRecords[d]
                    /\ cloudRecords'[d] = cloudRecords[d]
                    /\ (ToProcess(d))' = ToProcess(d) \ {id}
            /\ result'[d].uploaded # result[d].uploaded
                 => /\ id \in DOMAIN cloud'
                    /\ cloud'[id] = CloudRecordOf(localRecords[d][id], d, now)
            /\ result'[d].downloaded # result[d].downloaded
                 => /\ id \in DOMAIN local'[d]
                    /\ local'[d][id] = cloudRecords[d][id]
            /\ result'[d].deleted # result[d].deleted
                 => id \notin DOMAIN local'[d]]_vars

\* the case of C21: a sync in which one record has failed and another one
\* has been uploaded
C21_FailedAndUploaded ==
  \E d \in Devices :
    /\ phase[d] \in {"local", "cloud"}
    /\ result[d].errors = 1
    /\ result[d].uploaded = 1
    /\ pos[d] = MaxId + 1

\* C22: every document that a sync has written to the remote collection
\* carries its payload as ciphertext only: no uploaded document has a
\* plaintext payload
C22_CloudHoldsCiphertextOnly ==
  \A id \in DOMAIN cloud :
    ~cloud[id].deleted
      => /\ cloud[id].plaintext = NoData
         /\ cloud[id].ciphertext # NoData

\* the case of C22: a sync has uploaded an encrypted private record
C22_EncryptedRecordUploaded ==
  \E id \in DOMAIN cloud :
    /\ ~cloud[id].deleted
    /\ cloud[id].deviceId \in Devices
    /\ cloud[id].isPrivate
    /\ cloud[id].ciphertext # NoData
    /\ cloud[id].plaintext = NoData

UpdatedInFlight(d, id) ==
  /\ phase[d] \in {"local", "cloud"}
  /\ id \in DOMAIN local[d]
  /\ edits[id][d] # NoTime
  /\ local[d][id].updatedAt = edits[id][d]
  /\ id \in DOMAIN localRecords[d]
  /\ localRecords[d][id].updatedAt < edits[id][d]

\* C24: no step of a running sync overwrites or removes a record that
\* updateRecord wrote after the sync had read its lists: the record keeps the
\* content and the updatedAt of the update until the sync has finished
C24_InFlightUpdateSurvives ==
  [][\A d \in Devices : \A id \in Ids :
       (UpdatedInFlight(d, id) /\ ops' = ops)
         => /\ id \in DOMAIN local'[d]
            /\ local'[d][id].updatedAt = local[d][id].updatedAt
            /\ local'[d][id].plaintext = local[d][id].plaintext
            /\ local'[d][id].ciphertext = local[d][id].ciphertext]_vars

\* the case of C24: the running sync has finished both loops while the
\* device still holds the update made after the lists were read
C24_UpdateKeptToTheEnd ==
  \E d \in Devices : \E id \in Ids :
    /\ UpdatedInFlight(d, id)
    /\ RemainingLocal(d) = {}
    /\ RemainingCloud(d) = {}

\* C25: once the cloud document of a record is a tombstone, no step of any
\* sync makes the document live again, and no step of a sync gives the
\* record back to a device that does not hold it
C25_TombstoneIsFinal ==
  [][\A id \in DOMAIN cloud :
       (cloud[id].deleted /\ ops' = ops)
         => /\ id \in DOMAIN cloud'
            /\ cloud'[id].deleted
            /\ \A d \in Devices :
                 id \notin DOMAIN local[d] => id \notin DOMAIN local'[d]]_vars

\* the case of C25: a device that still holds a record is running a sync
\* that has read the stores a day or more after the tombstone of the record
\* was written
C25_LateSyncOfHolder ==
  \E d \in Devices : \E id \in DOMAIN cloud :
    /\ cloud[id].deleted
    /\ cloud[id].deviceId # d
    /\ now >= cloud[id].cloudUpdatedAt + TOMBSTONE_TTL
    /\ phase[d] = "local"
    /\ id \in DOMAIN localRecords[d]
    /\ id \in DOMAIN local[d]

\* TRUE when device d has uploaded record id, no longer holds it, no
\* tombstone of it is in the cloud, and the running sync of d has read the
\* stores in that state
DeletedWithoutTombstone(d, id) ==
  /\ id \notin DOMAIN local[d]
  /\ id \in DOMAIN cloud
  /\ ~cloud[id].deleted
  /\ cloud[id].deviceId = d
  /\ phase[d] \in {"local", "cloud"}
  /\ id \notin DOMAIN localRecords[d]
  /\ id \in DOMAIN cloudRecords[d]

\* C26: a record that a device uploaded and then deleted locally without a
\* tombstone reaching the cloud stays deleted on that device: no step of its
\* next sync stores the record locally again
C26_LocalDeleteStays ==
  [][\A d \in Devices : \A id \in Ids :
       (DeletedWithoutTombstone(d, id) /\ ops' = ops)
         => id \notin DOMAIN local'[d]]_vars

\* the case of C26: the device is signed in again and its sync has reached
\* the loop over the cloud records, with the deleted record among them
C26_SyncAfterLocalDelete ==
  \E d \in Devices : \E id \in Ids :
    /\ DeletedWithoutTombstone(d, id)
    /\ InCloudLoop(d)
    /\ signedIn[d]
    /\ id \in RemainingCloud(d)

\* C27: the count of failed attempts survives a restart: when the page is
\* loaded again after k wrong PINs in a row and the next PIN is wrong too, it
\* is counted as attempt k + 1 and the VaultMeta gets the lockout of entry
\* k + 1 of the schedule
C27_CountSurvivesRestart ==
  [][\A d \in Devices :
       (lastAuth[d].outcome = "restarted" /\ lastAuth'[d].outcome = "wrong")
         => LET n == lastAuth[d].streak + 1 IN
              /\ failedAttempts'[d] = n
              /\ meta'[d].lockUntil =
                   IF n = 1 THEN meta[d].lockUntil
                   ELSE now + ScheduledWait(n) * 1000]_vars

\* the case of C27: the page has been loaded again after a wrong PIN, the
\* VaultMeta holds the trace of the failure and no lockout is active
C27_RestartedAfterFailure ==
  \E d \in Devices :
    /\ lastAuth[d].outcome = "restarted"
    /\ lastAuth[d].streak >= 1
    /\ meta[d] # NoMeta
    /\ meta[d].lastFailedTimestamp # NoTime
    /\ ~LockoutActive(meta[d], now)
    /\ failedAttempts[d] = 0

\* C28: once a device has a VaultMeta, its wrapped master key and the PIN key
\* that wraps it (PIN, salt and iteration count) never change, and every
\* encrypted record of the device stays encrypted under the wrapped key
C28_VaultMetaKeyIsFinal ==
  [][\A d \in Devices :
       meta[d] # NoMeta
         => /\ meta'[d] # NoMeta
            /\ meta'[d].wrappedKey = meta[d].wrappedKey
            /\ meta'[d].wrapPin = meta[d].wrapPin
            /\ \A id \in DOMAIN local'[d] :
                 local'[d][id].cipherKey # NoKey
                   => local'[d][id].cipherKey = meta'[d].wrappedKey]_vars

\* the case of C28: setupPin has run on a vault that was set up before and
\* that holds a private record encrypted under the first master key
C28_SetupRepeated ==
  \E d \in Devices : \E id \in DOMAIN local[d] :
    /\ keyCount[d] = 2
    /\ meta[d] # NoMeta
    /\ local[d][id].isPrivate
    /\ local[d][id].cipherKey = <<d, 1>>

====
